---- MODULE Spec2Model ----
(***************************************************************************)
(* A model of nercone-archiver: the ArchiveManager session                 *)
(* (src/nercone_archiver/manager.py) and the command shell around it       *)
(* (src/nercone_archiver/__main__.py).                                     *)
(*                                                                         *)
(* The host file system is a function from absolute paths (sequences of    *)
(* segment names) to "dir" or to a file's content.  Path strings given by  *)
(* a caller are sequences of tokens: "/" or one path segment.  Archive     *)
(* files live in a store of their own, keyed by file name (a sequence of   *)
(* dot-separated components).  A method of ArchiveManager is an operator   *)
(* from a session record to the session record after the call, with the   *)
(* exception it raised (exc), the value it returned (ret) and what it      *)
(* logged (log).                                                           *)
(***************************************************************************)
EXTENDS Integers, Sequences, FiniteSets, TLC

VARIABLES
    fs,                      \* host file system: path -> "dir" | content
    archives,                \* archive files on disk: file name -> archive
    temp_dir,                \* self.temp_dir of the current manager
    _password_for_export,    \* self._password_for_export
    _imported_archive_path,  \* self._imported_archive_path
    _is_encrypted_import,    \* self._is_encrypted_import
    PYZIPPER_AVAILABLE,      \* manager.py:20-24
    py7zr,                   \* manager.py:10-13 (TRUE: the module is there)
    rarfile,                 \* manager.py:15-18
    last,                    \* the last call: operation, arguments, outcome
    pc,                      \* where the program is
    mgr,                     \* index of the current ArchiveManager
    managers,                \* per constructed manager: close() calls, late operations
    current_archive          \* interactive_mode's current_archive

vars == <<fs, archives, temp_dir, _password_for_export, _imported_archive_path,
          _is_encrypted_import, PYZIPPER_AVAILABLE, py7zr, rarfile, last, pc,
          mgr, managers, current_archive>>

-----------------------------------------------------------------------------
(* Bounds *)

\* ArchiveManager objects one run may construct (open/new replace the session)
MaxManagers == 2

-----------------------------------------------------------------------------
(* Values *)

None == "<None>"
\* a path attribute that is None, and the value of a call that returns None
NoPath == <<>>
NoRet == <<>>
NoExc == [cls |-> "none", msg |-> <<>>]
Exc(cls, msg) == [cls |-> cls, msg |-> msg]

\* the exception classes that derive from RuntimeError
IsRuntimeError(e) == e.cls \in {"RuntimeError", "NotImplementedError"}

\* "word" in str(e).lower(), on a message kept as a sequence of lower-case words
Mentions(e, word) == \E i \in 1..Len(e.msg) : e.msg[i] = word

-----------------------------------------------------------------------------
(* Paths and the file system *)

Parent(p) == IF p = <<>> THEN <<>> ELSE SubSeq(p, 1, Len(p) - 1)
Name(p) == IF p = <<>> THEN "" ELSE p[Len(p)]
IsPrefix(p, q) == Len(p) <= Len(q) /\ SubSeq(q, 1, Len(p)) = p
StrictlyBelow(p, q) == IsPrefix(p, q) /\ p # q

\* what the kernel answers for a path it cannot walk
ENOENT == <<"<ENOENT>">>

\* The kernel's walk of a path whose segments may be "..": ".." needs the
\* directory it is looked up in.
RECURSIVE walk(_, _, _)
walk(f, cur, rest) ==
    IF rest = <<>> \/ cur = ENOENT THEN cur
    ELSE IF Head(rest) = ".."
         THEN IF cur \in DOMAIN f /\ f[cur] = "dir"
              THEN walk(f, Parent(cur), Tail(rest))
              ELSE ENOENT
         ELSE walk(f, Append(cur, Head(rest)), Tail(rest))

Phys(f, p) == walk(f, <<>>, p)

exists(f, p) == Phys(f, p) \in DOMAIN f
is_dir(f, p) == exists(f, p) /\ f[Phys(f, p)] = "dir"
is_file(f, p) == exists(f, p) /\ f[Phys(f, p)] # "dir"

Without(f, gone) == [q \in (DOMAIN f) \ gone |-> f[q]]
Below(f, p) == {q \in DOMAIN f : StrictlyBelow(p, q)}
Put(f, p, v) == (p :> v) @@ f

-----------------------------------------------------------------------------
(* The os, pathlib and shutil calls the manager makes.  Each gives the     *)
(* file system after the call and the exception raised, if any.            *)

OsError(cls, words, p) == Exc(cls, words \o p)
Done(f) == [fs |-> f, exc |-> NoExc]
Raised(f, e) == [fs |-> f, exc |-> e]

\* the lexical prefixes of p that exist
ExistingPrefixes(f, p) == {i \in 0..Len(p) : exists(f, SubSeq(p, 1, i))}

\* errno of os.mkdir(p): "none" when the directory can be created
os_mkdir_errno(f, p) ==
    IF exists(f, p) THEN "FileExistsError"
    ELSE IF is_dir(f, Parent(p)) /\ Name(p) # ".." THEN "none"
    ELSE IF is_file(f, Parent(p)) THEN "NotADirectoryError"
    ELSE IF is_file(f, SubSeq(p, 1, CHOOSE i \in ExistingPrefixes(f, p) :
                                        \A j \in ExistingPrefixes(f, p) : j <= i))
    THEN "NotADirectoryError"
    ELSE "FileNotFoundError"

\* os.mkdir(p), e its errno
os_mkdir_errno_is(f, p, e) ==
    IF e = "none"
    THEN Done(Put(f, Append(Phys(f, Parent(p)), Name(p)), "dir"))
    ELSE Raised(f, OsError(e, <<"mkdir">>, p))

os_mkdir(f, p) == os_mkdir_errno_is(f, p, os_mkdir_errno(f, p))

\* Path.mkdir(parents=False, exist_ok=True), r the result of os.mkdir(p)
Path_mkdir_after(f, p, r) ==
    IF r.exc = NoExc \/ r.exc.cls = "FileNotFoundError" THEN r
    ELSE IF is_dir(f, p) THEN Done(f) ELSE r

Path_mkdir(f, p) == Path_mkdir_after(f, p, os_mkdir(f, p))

\* Path.mkdir(parents=True, exist_ok=True): r is the result of os.mkdir(p),
\* up the result of making the parent
RECURSIVE Path_mkdir_parents(_, _)
Path_mkdir_below(p, up) == IF up.exc # NoExc THEN up ELSE Path_mkdir(up.fs, p)

Path_mkdir_parents_after(f, p, r) ==
    IF r.exc = NoExc THEN r
    ELSE IF r.exc.cls = "FileNotFoundError"
         THEN IF p = <<>> THEN r
              ELSE Path_mkdir_below(p, Path_mkdir_parents(f, Parent(p)))
         ELSE IF is_dir(f, p) THEN Done(f) ELSE r

Path_mkdir_parents(f, p) == Path_mkdir_parents_after(f, p, os_mkdir(f, p))

\* os.makedirs(p, exist_ok): up is the result of making the parent, r the
\* result of os.mkdir(p) after it
RECURSIVE os_makedirs(_, _, _)
os_makedirs_leaf(g, p, exist_ok, r) ==
    IF r.exc = NoExc THEN r
    ELSE IF exist_ok /\ is_dir(g, p) THEN Done(g)
    ELSE r

os_makedirs_below(p, exist_ok, up) ==
    IF up.exc # NoExc /\ up.exc.cls # "FileExistsError" THEN up
    ELSE os_makedirs_leaf(up.fs, p, exist_ok, os_mkdir(up.fs, p))

os_makedirs(f, p, exist_ok) ==
    os_makedirs_below(p, exist_ok,
        IF p # <<>> /\ Parent(p) # <<>> /\ ~exists(f, Parent(p))
        THEN os_makedirs(f, Parent(p), exist_ok)
        ELSE Done(f))

\* os.unlink(p) / Path.unlink()
os_unlink(f, p) ==
    IF ~exists(f, p) THEN Raised(f, OsError("FileNotFoundError", <<"unlink">>, p))
    ELSE IF is_dir(f, p) THEN Raised(f, OsError("IsADirectoryError", <<"unlink">>, p))
    ELSE Done(Without(f, {Phys(f, p)}))

\* shutil.rmtree(p): the entries below p are removed through the open
\* directory (emptied is the file system then), then p itself by name; a
\* name that runs through a removed directory ("..") is no longer found
shutil_rmtree_top(p, top, emptied) ==
    IF Phys(emptied, p) = ENOENT
    THEN Raised(emptied, OsError("FileNotFoundError", <<"rmdir">>, p))
    ELSE IF top = <<>> \/ Name(p) = ".."
    THEN Raised(emptied, OsError("OSError", <<"rmdir">>, p))
    ELSE Done(Without(emptied, {top}))

shutil_rmtree(f, p) ==
    IF ~exists(f, p) THEN Raised(f, OsError("FileNotFoundError", <<"rmtree">>, p))
    ELSE IF ~is_dir(f, p) THEN Raised(f, OsError("NotADirectoryError", <<"rmtree">>, p))
    ELSE shutil_rmtree_top(p, Phys(f, p), Without(f, Below(f, Phys(f, p))))

\* shutil.copy(src, dst): src is a physical path of a file, to the file written
shutil_copy_to(f, src, to) ==
    IF ~(src \in DOMAIN f) \/ f[src] = "dir"
    THEN Raised(f, OsError("FileNotFoundError", <<"open">>, src))
    ELSE IF Phys(f, to) = src
    THEN Raised(f, OsError("SameFileError", <<"are", "the", "same", "file">>, to))
    ELSE IF is_dir(f, to)
    THEN Raised(f, OsError("IsADirectoryError", <<"open">>, to))
    ELSE IF is_file(f, Parent(to))
    THEN Raised(f, OsError("NotADirectoryError", <<"open">>, to))
    ELSE IF ~is_dir(f, Parent(to)) \/ Name(to) = ".."
    THEN Raised(f, OsError("FileNotFoundError", <<"open">>, to))
    ELSE Done(Put(f, Append(Phys(f, Parent(to)), Name(to)), f[src]))

shutil_copy(f, src, dst) ==
    shutil_copy_to(f, src, IF is_dir(f, dst) THEN Append(dst, Name(src)) ELSE dst)

\* shutil.copytree(src, dst): src is a physical path of a directory, made the
\* result of os.makedirs(dst), root the directory made
shutil_copytree_into(f, src, g, root) ==
    Done([q \in {root \o SubSeq(s, Len(src) + 1, Len(s)) : s \in Below(f, src)} |->
             f[src \o SubSeq(q, Len(root) + 1, Len(q))]] @@ g)

shutil_copytree_made(f, src, dst, made) ==
    IF made.exc # NoExc THEN made
    ELSE shutil_copytree_into(f, src, made.fs, Phys(made.fs, dst))

shutil_copytree(f, src, dst) ==
    shutil_copytree_made(f, src, dst, os_makedirs(f, dst, FALSE))

-----------------------------------------------------------------------------
(* Path strings: a sequence of tokens, "/" or one segment *)

\* str.split('/'): "" stands for an empty component
RECURSIVE split(_, _)
split(s, cur) ==
    IF s = <<>> THEN <<cur>>
    ELSE IF Head(s) = "/" THEN <<cur>> \o split(Tail(s), "")
    ELSE split(Tail(s), Head(s))

\* '/'.join(comps)
RECURSIVE join(_)
join(comps) ==
    IF comps = <<>> THEN <<>>
    ELSE IF Len(comps) = 1 THEN comps
    ELSE <<Head(comps), "/">> \o join(Tail(comps))

\* the loop of posixpath.normpath over the components
RECURSIVE norm_comps(_, _, _)
norm_comps(comps, new_comps, initial_slashes) ==
    IF comps = <<>> THEN new_comps
    ELSE IF Head(comps) \in {"", "."}
    THEN norm_comps(Tail(comps), new_comps, initial_slashes)
    ELSE IF \/ Head(comps) # ".."
            \/ (initial_slashes = 0 /\ new_comps = <<>>)
            \/ (new_comps # <<>> /\ Name(new_comps) = "..")
    THEN norm_comps(Tail(comps), Append(new_comps, Head(comps)), initial_slashes)
    ELSE norm_comps(Tail(comps), Parent(new_comps), initial_slashes)

\* the number of leading slashes normpath keeps
initial_slashes_of(path) ==
    IF path[1] # "/" THEN 0
    ELSE IF Len(path) >= 2 /\ path[2] = "/" /\ ~(Len(path) >= 3 /\ path[3] = "/")
    THEN 2 ELSE 1

\* path = path or '.'
or_dot(path) == IF path = <<>> THEN <<".">> ELSE path

normpath_slashes(path, initial_slashes) ==
    or_dot([i \in 1..initial_slashes |-> "/"]
           \o join(norm_comps(split(path, ""), <<>>, initial_slashes)))

\* os.path.normpath
normpath(path) ==
    IF path = <<>> THEN <<".">> ELSE normpath_slashes(path, initial_slashes_of(path))

\* str.lstrip('/\\')
RECURSIVE lstrip(_)
lstrip(s) == IF s # <<>> /\ Head(s) = "/" THEN lstrip(Tail(s)) ELSE s

\* str.endswith('/')
endswith_slash(s) == s # <<>> /\ s[Len(s)] = "/"

\* Path(base) / s, for a relative s: pathlib drops empty and "." components
PathJoin(base, s) ==
    base \o SelectSeq(split(s, ""), LAMBDA c : c \notin {"", "."})

\* Path.relative_to(base), lexical
relative_to(p, base) == SubSeq(p, Len(base) + 1, Len(p))

-----------------------------------------------------------------------------
(* File names: a sequence of dot-separated components, <<"out","tar","gz">>; *)
(* a path to a file in another directory than the working directory puts   *)
(* the directory's tokens and a "/" before them                            *)

\* the place of the last "/" of a path string, 0 when it has none
LastSlash(path) ==
    IF \A i \in 1..Len(path) : path[i] # "/" THEN 0
    ELSE CHOOSE i \in 1..Len(path) :
             path[i] = "/" /\ \A j \in (i + 1)..Len(path) : path[j] # "/"

\* os.path.basename and os.path.dirname
basename(path) == SubSeq(path, LastSlash(path) + 1, Len(path))
dirname(path) == SubSeq(path, 1, LastSlash(path) - 1)

\* the file name the components spell
RECURSIVE FileName(_)
FileName(name) ==
    IF Len(name) = 1 THEN name[1]
    ELSE name[1] \o "." \o FileName(Tail(name))

\* the archive files of the working directory are kept by name in archives;
\* an archive file written into another directory is an entry of that
\* directory in fs, with the content "archive": what it holds is not kept,
\* and no input of the specifications imports such a file
InCwd(path) == LastSlash(path) = 0
FileAt(f, path) ==
    Append(Phys(f, PathJoin(<<>>, dirname(path))), FileName(basename(path)))

\* Path(path).exists(), for the path of an archive file
Path_exists(S, path) ==
    IF InCwd(path) THEN path \in DOMAIN S.archives
    ELSE FileAt(S.fs, path) \in DOMAIN S.fs

\* str.lower() on the components used
Lower(c) ==
    CASE c = "ZIP" -> "zip"
      [] c = "TAR" -> "tar"
      [] c = "GZ" -> "gz"
      [] c = "TGZ" -> "tgz"
      [] OTHER -> c

\* name.endswith('.' + a + '.' + b)
EndsWith2(name, a, b) ==
    Len(name) >= 3 /\ Lower(name[Len(name) - 1]) = a /\ Lower(name[Len(name)]) = b

\* name.endswith('.' + a)
EndsWith1(name, a) == Len(name) >= 2 /\ Lower(name[Len(name)]) = a

\* Path(path).suffix[1:].lower()
Suffix(name) ==
    IF Len(name) >= 2 /\ name[Len(name)] # ""
       /\ ~(Len(name) = 2 /\ name[1] = "")
    THEN Lower(name[Len(name)])
    ELSE ""

\* manager.py:48-51, name the lowered base name
format_of(name) ==
    IF EndsWith2(name, "tar", "gz") THEN "tar.gz"
    ELSE IF EndsWith2(name, "tar", "xz") THEN "tar.xz"
    ELSE IF EndsWith1(name, "tgz") THEN "tar.gz"
    ELSE Suffix(name)

_get_format(path) == format_of(basename(path))

-----------------------------------------------------------------------------
(* The session: one ArchiveManager and the world it acts on *)

Session ==
    [fs |-> fs, archives |-> archives, temp_dir |-> temp_dir,
     _password_for_export |-> _password_for_export,
     _imported_archive_path |-> _imported_archive_path,
     _is_encrypted_import |-> _is_encrypted_import,
     PYZIPPER_AVAILABLE |-> PYZIPPER_AVAILABLE, py7zr |-> py7zr,
     rarfile |-> rarfile,
     exc |-> NoExc, ret |-> NoRet, log |-> <<>>, bar |-> <<>>]

\* Python's truth value of a password argument (None and '' are false)
Truthy(password) == password # None /\ password # ""

raise(S, e) == [S EXCEPT !.exc = e]
logger_log(S, level, what) == [S EXCEPT !.log = Append(@, <<level, what>>)]
ModernProgressBar(S, total) == [S EXCEPT !.bar = Append(@, <<"total", total>>)]
bar_update(S) == [S EXCEPT !.bar = Append(@, <<"update", 1>>)]
bar_finish(S) == [S EXCEPT !.bar = Append(@, <<"finish", 0>>)]
WithFs(S, r) == [S EXCEPT !.fs = r.fs, !.exc = r.exc]


-----------------------------------------------------------------------------
(* Archive files.  An archive is                                           *)
(*   [kind: "zip" | "tar" | "7z" | "rar" | "junk", comp: "" | "gz" | "xz", *)
(*    aes: BOOLEAN, members: a sequence of [name, data, pwd]]              *)
(* where name is a path relative to the archive root, data is "dir" or a   *)
(* file's content and pwd is the password the member is encrypted with     *)
(* (None: not encrypted).                                                  *)

\* extract(member, self.temp_dir) of zipfile, tarfile and py7zr: the upper
\* directories of target are made first (made is the result), then `opens`
\* (the reader's answer for this member: NoExc or the error of opening it)
\* decides, then the file is written
extract_to(S, member, opens, target, f) ==
    IF member.data = "dir"
    THEN IF is_dir(f, target) THEN WithFs(S, Done(f))
         ELSE WithFs(S, os_mkdir(f, target))
    ELSE IF opens # NoExc THEN WithFs(S, Raised(f, opens))
    ELSE IF is_dir(f, target)
    THEN WithFs(S, Raised(f, OsError("IsADirectoryError", <<"open">>, target)))
    ELSE IF ~is_dir(f, Parent(target))
    THEN WithFs(S, Raised(f, OsError("NotADirectoryError", <<"open">>, target)))
    ELSE WithFs(S, Done(Put(f, target, member.data)))

extract_made(S, member, opens, target, made) ==
    IF made.exc # NoExc THEN WithFs(S, made)
    ELSE extract_to(S, member, opens, target, made.fs)

extract(S, member, opens) ==
    extract_made(S, member, opens, S.temp_dir \o member.name,
        IF exists(S.fs, Parent(S.temp_dir \o member.name)) THEN Done(S.fs)
        ELSE os_makedirs(S.fs, Parent(S.temp_dir \o member.name), FALSE))

\* ZipFile.open / AESZipFile.open of one member, with the password set
zip_open(archive, member, aes_reader, password) ==
    IF member.pwd = None THEN NoExc
    ELSE IF ~Truthy(password)
    THEN Exc("RuntimeError", <<"file">> \o member.name
                 \o <<"is", "encrypted", "password", "required", "for", "extraction">>)
    ELSE IF archive.aes /\ ~aes_reader
    THEN Exc("NotImplementedError",
             <<"that", "compression", "method", "is", "not", "supported">>)
    ELSE IF password # member.pwd
    THEN Exc("RuntimeError", <<"bad", "password", "for", "file">> \o member.name)
    ELSE NoExc

\* bar.finish() when the loop over the members ended without an exception
Finished(R) == IF R.exc = NoExc THEN bar_finish(R) ELSE R

\* manager.py:123-129: except RuntimeError in the loop over the members
zip_except(R, password) ==
    IF Mentions(R.exc, "password") /\ ~Truthy(password)
    THEN [logger_log(bar_finish(R), "WARN", "zip_is_encrypted")
             EXCEPT !._is_encrypted_import = TRUE]
    ELSE bar_finish(R)

\* manager.py:119-129, the loop over the members of a zip; R is the session
\* after zf.extract of the first of them
RECURSIVE zip_members(_, _, _, _, _)
\* the loop over the members with a failure undoing what was extracted
zip_extracted_rollback(R, archive, rest, aes_reader, password) ==
    IF R.exc = NoExc
    THEN zip_members(bar_update(R), archive, rest, aes_reader, password)
    ELSE IF IsRuntimeError(R.exc)
    THEN zip_except([R EXCEPT !.fs = Without(R.fs, Below(R.fs, R.temp_dir))],
                    password)
    ELSE [R EXCEPT !.fs = Without(R.fs, Below(R.fs, R.temp_dir))]

zip_extracted(R, archive, rest, aes_reader, password) ==
    IF R.exc = NoExc
    THEN zip_members(bar_update(R), archive, rest, aes_reader, password)
    ELSE IF IsRuntimeError(R.exc) THEN zip_except(R, password)
    ELSE R

zip_members(S, archive, members, aes_reader, password) ==
    IF members = <<>> THEN S
    ELSE zip_extracted(extract(S, Head(members),
                               zip_open(archive, Head(members), aes_reader, password)),
                       archive, Tail(members), aes_reader, password)

\* manager.py:102-109: the AES reader is taken when pyzipper is there and
\* reports the archive as WZ_AES
zip_opened(S, archive, password) ==
    IF archive.kind # "zip"
    THEN raise(S, Exc("BadZipFile", <<"file", "is", "not", "a", "zip", "file">>))
    ELSE Finished(zip_members(ModernProgressBar(S, Len(archive.members)),
                              archive, archive.members,
                              S.PYZIPPER_AVAILABLE /\ archive.aes, password))

_import_zip_with_progress(S, archive_path, password) ==
    zip_opened(S, S.archives[archive_path], password)

\* manager.py:139-141, the loop over the members of a tar; R is the session
\* after tf.extract of the first of them
RECURSIVE tar_members(_, _)
tar_extracted(R, rest) ==
    IF R.exc = NoExc THEN tar_members(bar_update(R), rest) ELSE R

tar_members(S, members) ==
    IF members = <<>> THEN S
    ELSE tar_extracted(extract(S, Head(members), NoExc), Tail(members))

tar_opened(S, archive) ==
    IF archive.kind # "tar"
    THEN raise(S, Exc("ReadError",
                      <<"file", "could", "not", "be", "opened", "successfully">>))
    ELSE Finished(tar_members(ModernProgressBar(S, Len(archive.members)),
                              archive.members))

_import_tar_with_progress(S, archive_path, fmt) ==
    tar_opened(S, S.archives[archive_path])

\* SevenZipFile.extract of one member, with the password given at opening
sevenzip_open(member, password) ==
    IF member.pwd = None THEN NoExc
    ELSE IF ~Truthy(password)
    THEN Exc("PasswordRequired",
             <<"password", "is", "required", "for", "extracting", "given", "archive">>)
    ELSE IF password # member.pwd
    THEN Exc("LZMAError", <<"corrupt", "input", "data">>)
    ELSE NoExc

\* manager.py:73-75; R is the session after szf.extract of the first member
RECURSIVE sevenzip_members(_, _, _)
sevenzip_extracted(R, rest, password) ==
    IF R.exc = NoExc THEN sevenzip_members(bar_update(R), rest, password) ELSE R

sevenzip_members(S, members, password) ==
    IF members = <<>> THEN S
    ELSE sevenzip_extracted(
             extract(S, Head(members), sevenzip_open(Head(members), password)),
             Tail(members), password)

sevenzip_opened(S, archive, password) ==
    IF archive.kind # "7z"
    THEN raise(S, Exc("Bad7zFile", <<"not", "a", "7z", "file">>))
    ELSE Finished(sevenzip_members(ModernProgressBar(S, Len(archive.members)),
                                   archive.members, password))

\* manager.py:66-76
import_7z(S, archive_path, password) ==
    IF ~S.py7zr
    THEN raise(S, Exc("ImportError", <<"py7zr", "is", "not", "installed">>))
    ELSE sevenzip_opened(S, S.archives[archive_path], password)

\* manager.py:77-87: RarFile() takes no pwd argument, so the call itself fails
import_rar(S, archive_path, password) ==
    IF ~S.rarfile
    THEN raise(S, Exc("ImportError", <<"rarfile", "is", "not", "installed">>))
    ELSE raise(S, Exc("TypeError",
                      <<"got", "an", "unexpected", "keyword", "argument", "pwd">>))

\* a call starts with nothing raised, returned or reported
Call(S) == [S EXCEPT !.exc = NoExc, !.ret = NoRet, !.log = <<>>, !.bar = <<>>]

\* manager.py:61-89: the codec for the format
import_by_format(S, archive_path, fmt, password) ==
    IF fmt = "zip"
    THEN _import_zip_with_progress(S, archive_path, password)
    ELSE IF fmt \in {"tar", "tar.gz", "gz", "tar.xz", "xz"}
    THEN _import_tar_with_progress(S, archive_path, fmt)
    ELSE IF fmt = "7z" THEN import_7z(S, archive_path, password)
    ELSE IF fmt = "rar" THEN import_rar(S, archive_path, password)
    ELSE raise(S, Exc("ValueError", <<"unsupported", "import", "format", fmt>>))

\* manager.py:91-99: the end of the try block and its except clause
import_except(R) ==
    IF R.exc = NoExc THEN logger_log(R, "INFO", "import_successful")
    ELSE IF \/ Mentions(R.exc, "password")
            \/ Mentions(R.exc, "encrypted")
            \/ IsRuntimeError(R.exc)
    THEN logger_log([R EXCEPT !._is_encrypted_import = TRUE],
                    "WARN", "import_failed_likely_encryption")
    ELSE logger_log(R, "ERROR", "failed_to_import_archive")

\* import_archive recording the path before it tests that the file exists
import_archive_recording(S, archive_path, password) ==
    IF ~Path_exists(S, archive_path)
    THEN raise([S EXCEPT !._imported_archive_path = archive_path],
               Exc("FileNotFoundError",
                   <<"archive", "not", "found">> \o archive_path))
    ELSE import_except(
             import_by_format(
                 logger_log([S EXCEPT !._imported_archive_path = archive_path],
                            "INFO", "importing"),
                 archive_path, _get_format(archive_path), password))

import_archive(S, archive_path, password) ==
    IF ~Path_exists(S, archive_path)
    THEN raise(S, Exc("FileNotFoundError",
                      <<"archive", "not", "found">> \o archive_path))
    ELSE import_except(
             import_by_format(
                 logger_log([S EXCEPT !._imported_archive_path = archive_path],
                            "INFO", "importing"),
                 archive_path, _get_format(archive_path), password))

-----------------------------------------------------------------------------
(* Order of names and of path strings *)

\* the segment names of the model, in the order of their spelling
NameOrder ==
    <<"..", "a", "b", "d", "etc", "notes.txt", "out.tar", "passwd", "src",
      "t1", "t2", "t3", "t4", "t5", "t6", "tmp">>
Rank(n) == CHOOSE i \in 1..Len(NameOrder) : NameOrder[i] = n

\* p < q as strings, for paths whose segments are joined by "/" (no name of
\* the model is the beginning of another, so the segments decide)
RECURSIVE PathLess(_, _)
PathLess(p, q) ==
    IF q = <<>> THEN FALSE
    ELSE IF p = <<>> THEN TRUE
    ELSE IF Head(p) = Head(q) THEN PathLess(Tail(p), Tail(q))
    ELSE Rank(Head(p)) < Rank(Head(q))

\* sorted(paths)
RECURSIVE sorted(_)
sorted_from(paths, least) == <<least>> \o sorted(paths \ {least})

sorted(paths) ==
    IF paths = {} THEN <<>>
    ELSE sorted_from(paths,
             CHOOSE p \in paths : \A q \in paths \ {p} : PathLess(p, q))

\* os.walk(top): the files below top, a directory's files before those of
\* its subdirectories (scandir order is taken to be the order of names)
RECURSIVE os_walk(_, _)
RECURSIVE os_walk_dirs(_, _)
os_walk_dirs(f, dirs) ==
    IF dirs = <<>> THEN <<>>
    ELSE os_walk(f, Head(dirs)) \o os_walk_dirs(f, Tail(dirs))

os_walk_entries(f, kids) ==
    sorted({q \in kids : f[q] # "dir"})
    \o os_walk_dirs(f, sorted({q \in kids : f[q] = "dir"}))

os_walk(f, top) ==
    IF ~(top \in DOMAIN f) \/ f[top] # "dir" THEN <<>>
    ELSE os_walk_entries(f, {q \in DOMAIN f : Parent(q) = top /\ q # top})

-----------------------------------------------------------------------------
(* ArchiveManager *)

\* mkdtemp names, one per manager of the run
StageNames == <<"t1", "t2", "t3", "t4", "t5", "t6">>
mkdtemp(k) == <<"tmp", StageNames[k]>>

\* ArchiveManager.__init__, for the k-th manager of the run
ArchiveManager_init(S, k) ==
    logger_log([S EXCEPT !.fs = Put(S.fs, mkdtemp(k), "dir"),
                         !.temp_dir = mkdtemp(k),
                         !._password_for_export = None,
                         !._imported_archive_path = NoPath,
                         !._is_encrypted_import = FALSE],
               "INFO", "initialized")

\* manager.py:43-44, r the result of shutil.rmtree
close_removed(S, r) ==
    IF r.exc # NoExc THEN WithFs(S, r)
    ELSE logger_log(WithFs(S, r), "INFO", "temporary_directory_removed")

close(S) == close_removed(S, shutil_rmtree(S.fs, S.temp_dir))

\* the members export writes for file_list
Written(S, file_list, pwd) ==
    [i \in 1..Len(file_list) |->
        [name |-> relative_to(file_list[i], S.temp_dir),
         data |-> S.fs[file_list[i]], pwd |-> pwd]]

RECURSIVE bar_updates(_, _)
bar_updates(S, n) == IF n = 0 THEN S ELSE bar_updates(bar_update(S), n - 1)

\* opening output_path for writing and closing it with the archive in it
WriteArchive(S, output_path, archive) ==
    IF InCwd(output_path)
    THEN [S EXCEPT !.archives = (output_path :> archive) @@ S.archives]
    ELSE IF ~is_dir(S.fs, PathJoin(<<>>, dirname(output_path)))
    THEN raise(S, Exc("FileNotFoundError",
                      <<"no", "such", "file", "or", "directory">>))
    ELSE [S EXCEPT !.fs = Put(S.fs, FileAt(S.fs, output_path), "archive")]

\* the progress of the loop over file_list, when the archive was opened
Progress(W, n) == IF W.exc # NoExc THEN W ELSE bar_finish(bar_updates(W, n))

\* manager.py:187-195, W the session after the choice of the opener
zip_write(W, output_path, file_list) ==
    IF ~(Truthy(W._password_for_export) /\ W.PYZIPPER_AVAILABLE)
    \* zipfile.ZipFile() takes no encryption argument
    THEN raise(W, Exc("TypeError",
             <<"got", "an", "unexpected", "keyword", "argument", "encryption">>))
    ELSE Progress(
             WriteArchive(W, output_path,
                 [kind |-> "zip", comp |-> "", aes |-> TRUE,
                  members |-> Written(W, file_list, W._password_for_export)]),
             Len(file_list))

_export_zip_with_progress(S, output_path, file_list, total_files) ==
    zip_write(IF Truthy(S._password_for_export) /\ ~S.PYZIPPER_AVAILABLE
              THEN logger_log(ModernProgressBar(S, total_files),
                              "WARN", "pyzipper_not_installed")
              ELSE ModernProgressBar(S, total_files),
              output_path, file_list)

\* TarFile.add() skips the archive itself
RECURSIVE tar_added(_, _, _)
tar_added(S, output_path, file_list) ==
    IF file_list = <<>> THEN <<>>
    ELSE IF InCwd(output_path) \/ Head(file_list) # FileAt(S.fs, output_path)
    THEN <<Head(file_list)>> \o tar_added(S, output_path, Tail(file_list))
    ELSE tar_added(S, output_path, Tail(file_list))

\* manager.py:201-206, B the session with the bar made
tar_write(B, output_path, fmt, file_list) ==
    Progress(
        WriteArchive(B, output_path,
            [kind |-> "tar",
             comp |-> IF fmt = "tar.gz" THEN "gz"
                      ELSE IF fmt = "tar.xz" THEN "xz" ELSE "",
             aes |-> FALSE,
             members |-> Written(B, tar_added(B, output_path, file_list), None)]),
        Len(file_list))

_export_tar_with_progress(S, output_path, fmt, file_list, total_files) ==
    tar_write(ModernProgressBar(S, total_files), output_path, fmt, file_list)

\* manager.py:159-167
export_7z(S, output_path, file_list, total_files) ==
    IF ~S.py7zr
    THEN raise(S, Exc("ImportError", <<"py7zr", "is", "not", "installed">>))
    ELSE Progress(
             WriteArchive(ModernProgressBar(S, total_files), output_path,
                 [kind |-> "7z", comp |-> "", aes |-> FALSE,
                  members |-> Written(S, file_list, S._password_for_export)]),
             Len(file_list))

\* the choice of the writer with gz and xz taken for compressed tar
export_by_format_lenient(S, output_path, fmt, file_list, total_files) ==
    IF fmt = "zip"
    THEN _export_zip_with_progress(S, output_path, file_list, total_files)
    ELSE IF fmt \in {"tar", "tar.gz", "tar.xz", "gz", "xz"}
    THEN _export_tar_with_progress(S, output_path, fmt, file_list, total_files)
    ELSE IF fmt = "7z" THEN export_7z(S, output_path, file_list, total_files)
    ELSE raise(S, Exc("ValueError",
             <<"unsupported", "export", "format", fmt,
               "or", "implementation", "pending">>))

\* manager.py:155-169: the writer for the format
export_by_format(S, output_path, fmt, file_list, total_files) ==
    IF fmt = "zip"
    THEN _export_zip_with_progress(S, output_path, file_list, total_files)
    ELSE IF fmt \in {"tar", "tar.gz", "tar.xz"}
    THEN _export_tar_with_progress(S, output_path, fmt, file_list, total_files)
    ELSE IF fmt = "7z" THEN export_7z(S, output_path, file_list, total_files)
    ELSE raise(S, Exc("ValueError",
             <<"unsupported", "export", "format", fmt,
               "or", "implementation", "pending">>))

\* manager.py:153: total_files = len(file_list)
export_listed(S, output_path, fmt, file_list) ==
    export_by_format(S, output_path, fmt, file_list, Len(file_list))

\* manager.py:145-151: the format, the log line and the walk
export_walk(S, output_path, compression_format) ==
    export_listed(logger_log(S, "INFO", "exporting"), output_path,
                  IF compression_format # None /\ compression_format # ""
                  THEN compression_format ELSE _get_format(output_path),
                  os_walk(S.fs, S.temp_dir))

\* manager.py:171
export_logged(R) ==
    IF R.exc = NoExc THEN logger_log(R, "INFO", "export_successful") ELSE R

\* the end of an export that forgets the export password
export_forgot(R) ==
    IF R.exc = NoExc
    THEN logger_log([R EXCEPT !._password_for_export = None],
                    "INFO", "export_successful")
    ELSE R

\* export that forgets the export password once the archive is written
export_forgetting(S, output_path, compression_format) ==
    export_forgot(export_walk(S, output_path, compression_format))

export(S, output_path, compression_format) ==
    export_logged(export_walk(S, output_path, compression_format))

\* encrypt that drops the stored password when it refuses the new one
encrypt_clearing(S, password) ==
    IF ~Truthy(password)
    THEN raise([S EXCEPT !._password_for_export = None],
               Exc("ValueError",
                   <<"password", "must", "be", "a", "non-empty", "string">>))
    ELSE logger_log([S EXCEPT !._password_for_export = password],
                    "INFO", "encryption_enabled")

encrypt(S, password) ==
    IF ~Truthy(password)
    THEN raise(S, Exc("ValueError",
             <<"password", "must", "be", "a", "non-empty", "string">>))
    ELSE logger_log([S EXCEPT !._password_for_export = password],
                    "INFO", "encryption_enabled")

\* manager.py:220-223: every item of the staging directory is removed
wipe(S) ==
    IF ~is_dir(S.fs, S.temp_dir)
    THEN WithFs(S, Raised(S.fs, OsError("FileNotFoundError", <<"listdir">>, S.temp_dir)))
    ELSE [S EXCEPT !.fs = Without(S.fs, Below(S.fs, S.temp_dir))]

InvalidState ==
    Exc("RuntimeError",
        <<"decrypt", "with", "password", "can", "only", "be", "used", "after", "a",
          "failed", "import", "of", "an", "encrypted", "archive">>)

\* manager.py:226, R the session after the import
decrypt_imported(R) ==
    IF R.exc # NoExc THEN R ELSE [R EXCEPT !._is_encrypted_import = FALSE]

\* manager.py:225, W the session after the staging directory was emptied
decrypt_wiped(W, password) ==
    IF W.exc # NoExc THEN W
    ELSE decrypt_imported(import_archive(W, W._imported_archive_path, password))

\* manager.py:218-226
decrypt_retry(S, password) ==
    decrypt_wiped(wipe(logger_log(S, "INFO", "attempting_to_decrypt")), password)

\* clearing the export password that also forgets the failed import
decrypt_disable_forgetting(S) ==
    IF Truthy(S._password_for_export)
    THEN logger_log([S EXCEPT !._password_for_export = None,
                              !._is_encrypted_import = FALSE],
                    "INFO", "encryption_disabled")
    ELSE logger_log(S, "INFO", "encryption_was_not_enabled")

\* manager.py:228-232
decrypt_disable(S) ==
    IF Truthy(S._password_for_export)
    THEN logger_log([S EXCEPT !._password_for_export = None],
                    "INFO", "encryption_disabled")
    ELSE logger_log(S, "INFO", "encryption_was_not_enabled")

\* decrypt with its guard written with "and" for "or"
decrypt_guard_and(S, password) ==
    IF Truthy(password)
    THEN IF S._imported_archive_path = NoPath /\ ~S._is_encrypted_import
         THEN raise(S, InvalidState)
         ELSE decrypt_retry(S, password)
    ELSE decrypt_disable(S)

decrypt(S, password) ==
    IF Truthy(password)
    THEN IF S._imported_archive_path = NoPath \/ ~S._is_encrypted_import
         THEN raise(S, InvalidState)
         ELSE decrypt_retry(S, password)
    ELSE decrypt_disable(S)

\* Path.resolve() for the containment test: without symbolic links, the
\* ".." segments folded away
RECURSIVE resolve(_, _)
resolve(p, acc) ==
    IF p = <<>> THEN acc
    ELSE IF Head(p) = ".." THEN resolve(Tail(p), Parent(acc))
    ELSE resolve(Tail(p), Append(acc, Head(p)))

\* manager.py:237-239
contained(S, full_path) ==
    IF ~IsPrefix(resolve(S.temp_dir, <<>>), resolve(full_path, <<>>))
    THEN full_path      \* manager.py:238: pass
    ELSE full_path

_resolve_path(S, path_in_archive) ==
    contained(S, PathJoin(S.temp_dir, lstrip(normpath(path_in_archive))))

\* manager.py:266
add_logged(R) == IF R.exc = NoExc THEN logger_log(R, "INFO", "added") ELSE R

\* manager.py:257
add_tree_copied(c) == IF c.exc = NoExc THEN bar_finish(c) ELSE c

\* manager.py:255-257
add_dir(B, source_path, dest_path) ==
    add_tree_copied(
        WithFs(B, shutil_copytree(B.fs, source_path,
                                  Append(dest_path, Name(source_path)))))

\* manager.py:264, m the result of final_dest.mkdir
add_file_made(S, source_path, final_dest, m) ==
    IF m.exc # NoExc THEN WithFs(S, m)
    ELSE WithFs(S, shutil_copy(m.fs, source_path,
                    IF is_dir(m.fs, final_dest)
                    THEN Append(final_dest, Name(source_path))
                    ELSE final_dest))

\* manager.py:263
add_file_into(S, source_path, final_dest) ==
    add_file_made(S, source_path, final_dest, Path_mkdir_parents(S.fs, final_dest))

\* manager.py:259-262
add_file(S, source_path, dest_path_in_archive, dest_path) ==
    add_file_into(S, source_path,
        IF is_dir(S.fs, dest_path) \/ endswith_slash(dest_path_in_archive)
        THEN dest_path ELSE Parent(dest_path))

add(S, source_path, dest_path_in_archive) ==
    IF ~(source_path \in DOMAIN S.fs)
    THEN raise(S, OsError("FileNotFoundError", <<"source", "not", "found">>, source_path))
    ELSE IF S.fs[source_path] = "dir"
    THEN add_logged(
             add_dir(ModernProgressBar(S, Cardinality(Below(S.fs, source_path))),
                     source_path, _resolve_path(S, dest_path_in_archive)))
    ELSE add_logged(
             add_file(S, source_path, dest_path_in_archive,
                      _resolve_path(S, dest_path_in_archive)))

\* manager.py:277, r the result of the removal
remove_done(S, r) ==
    IF r.exc # NoExc THEN WithFs(S, r)
    ELSE logger_log(WithFs(S, r), "INFO", "removed")

\* the removal acting on the directory that contains the target
remove_around(S, path_in_archive, target_path) ==
    IF ~exists(S.fs, target_path)
    THEN raise(S, Exc("FileNotFoundError",
                      <<"path", "not", "found">> \o path_in_archive))
    ELSE remove_done(S, shutil_rmtree(S.fs, Parent(Phys(S.fs, target_path))))

\* remove acting on the directory that contains the target
remove_containing_dir(S, path_in_archive) ==
    remove_around(S, path_in_archive, _resolve_path(S, path_in_archive))

\* manager.py:270-277
remove_target(S, path_in_archive, target_path) ==
    IF ~exists(S.fs, target_path)
    THEN raise(S, Exc("FileNotFoundError",
                      <<"path", "not", "found">> \o path_in_archive))
    ELSE remove_done(S, IF is_dir(S.fs, target_path)
                        THEN shutil_rmtree(S.fs, target_path)
                        ELSE os_unlink(S.fs, target_path))

remove(S, path_in_archive) ==
    remove_target(S, path_in_archive, _resolve_path(S, path_in_archive))

\* target_path.rglob('*') from the directory target_path names, each path
\* made relative to temp_dir
rglob_below(S, target_path, top) ==
    {relative_to(target_path \o SubSeq(q, Len(top) + 1, Len(q)), S.temp_dir) :
        q \in Below(S.fs, top)}

\* the collection with glob('*') for rglob('*'): the children only
rglob_children(S, target_path) ==
    IF ~exists(S.fs, target_path) THEN {}
    ELSE {relative_to(Append(target_path, Name(q)), S.temp_dir) :
             q \in {q \in DOMAIN S.fs :
                       q # <<>> /\ Parent(q) = Phys(S.fs, target_path)}}

\* the paths list_files collects, before sorting
rglob(S, target_path) ==
    IF ~exists(S.fs, target_path) THEN {}
    ELSE rglob_below(S, target_path, Phys(S.fs, target_path))

list_files(S, path_in_archive) ==
    [S EXCEPT !.ret = sorted(rglob(S, _resolve_path(S, path_in_archive)))]

-----------------------------------------------------------------------------
(* The world a run starts in *)

InitFs ==
    (<<>> :> "dir") @@ (<<"tmp">> :> "dir") @@ (<<"etc">> :> "dir")
    @@ (<<"etc", "passwd">> :> "root") @@ (<<"src">> :> "dir")
    @@ (<<"src", "notes.txt">> :> "c1") @@ (<<"src", "d">> :> "dir")
    @@ (<<"src", "d", "notes.txt">> :> "c2")

Member(name, data, pwd) == [name |-> name, data |-> data, pwd |-> pwd]
Archive(kind, comp, aes, members) ==
    [kind |-> kind, comp |-> comp, aes |-> aes, members |-> members]

InitArchives ==
    (<<"secret", "zip">> :> Archive("zip", "", FALSE,
        <<Member(<<"notes.txt">>, "c1", None), Member(<<"a", "b">>, "c2", "pw1")>>))
    @@ (<<"aes", "ZIP">> :> Archive("zip", "", TRUE,
        <<Member(<<"b">>, "c2", "pw1")>>))
    @@ (<<"data", "tar", "gz">> :> Archive("tar", "gz", FALSE,
        <<Member(<<"a">>, "dir", None), Member(<<"a", "notes.txt">>, "c2", None)>>))
    @@ (<<"box", "7z">> :> Archive("7z", "", FALSE,
        <<Member(<<"b">>, "c2", "pw1")>>))
    @@ (<<"old", "rar">> :> Archive("rar", "", FALSE,
        <<Member(<<"b">>, "c1", None)>>))
    @@ (<<"data", "encrypted">> :> Archive("junk", "", FALSE, <<>>))
    @@ (<<"part", "zip">> :> Archive("zip", "", FALSE,
        <<Member(<<"b">>, "c1", None), Member(<<"a", "notes.txt">>, "c2", "pw1"),
          Member(<<"d">>, "c2", None)>>))

\* the state before main() or a caller constructs the first manager
World ==
    [fs |-> InitFs, archives |-> InitArchives, temp_dir |-> <<>>,
     _password_for_export |-> None, _imported_archive_path |-> NoPath,
     _is_encrypted_import |-> FALSE,
     PYZIPPER_AVAILABLE |-> PYZIPPER_AVAILABLE, py7zr |-> py7zr, rarfile |-> rarfile,
     exc |-> NoExc, ret |-> NoRet, log |-> <<>>, bar |-> <<>>]

\* the arguments of a call: a path (of an archive, a source or an entry), a
\* password and a destination
Args(path, password, dest) == [path |-> path, password |-> password, dest |-> dest]
NoArgs == Args(<<>>, None, <<>>)

\* the variables take the session R, after the call `op` with `args`
Becomes(R, op, args) ==
    /\ fs' = R.fs
    /\ archives' = R.archives
    /\ temp_dir' = R.temp_dir
    /\ _password_for_export' = R._password_for_export
    /\ _imported_archive_path' = R._imported_archive_path
    /\ _is_encrypted_import' = R._is_encrypted_import
    /\ last' = [op |-> op, args |-> args, exc |-> R.exc, ret |-> R.ret,
                log |-> R.log, bar |-> R.bar]
    /\ UNCHANGED <<PYZIPPER_AVAILABLE, py7zr, rarfile>>

\* the same, and the call's record keeps history for properties over two
\* calls: for an add, what list_files() gave before it and the paths it
\* created; for a remove, that record of the add it follows, if it follows a
\* successful one
NoAdd == [args |-> NoArgs, before |-> <<>>, created |-> {}]

BecomesAfter(R, op, args) ==
    /\ fs' = R.fs
    /\ archives' = R.archives
    /\ temp_dir' = R.temp_dir
    /\ _password_for_export' = R._password_for_export
    /\ _imported_archive_path' = R._imported_archive_path
    /\ _is_encrypted_import' = R._is_encrypted_import
    /\ last' = [op |-> op, args |-> args, exc |-> R.exc, ret |-> R.ret,
                log |-> R.log, bar |-> R.bar,
                added |-> IF op = "add" /\ R.exc = NoExc
                          THEN [args |-> args,
                                before |-> list_files(Session, <<".">>).ret,
                                created |-> (DOMAIN R.fs) \ (DOMAIN fs)]
                          ELSE IF op = "remove" /\ last.op = "add"
                          THEN last.added
                          ELSE NoAdd]
    /\ UNCHANGED <<PYZIPPER_AVAILABLE, py7zr, rarfile>>

\* current_archive = None
NoArchive == <<>>

\* the first manager of the run is constructed (__main__.py:14-15)
InitManager ==
    /\ LET S == ArchiveManager_init(World, 1)
       IN  /\ fs = S.fs
           /\ archives = S.archives
           /\ temp_dir = S.temp_dir
           /\ _password_for_export = S._password_for_export
           /\ _imported_archive_path = S._imported_archive_path
           /\ _is_encrypted_import = S._is_encrypted_import
           /\ last = [op |-> "__init__", args |-> NoArgs, exc |-> S.exc, ret |-> S.ret,
                      log |-> S.log, bar |-> S.bar]
    /\ mgr = 1
    /\ managers = (1 :> [closes |-> 0, late |-> FALSE])
    /\ current_archive = NoArchive

\* a session as a caller of the class holds it: one manager, constructed
InitSession == InitManager /\ pc = "session"

-----------------------------------------------------------------------------
(* Spec: the encrypted-import state machine on one session *)

ImportInputs ==
    {<<"secret", "zip">>, <<"data", "tar", "gz">>, <<"data", "encrypted">>,
     <<"box", "7z">>, <<"old", "rar">>, <<"missing", "zip">>}

Frame == UNCHANGED <<pc, mgr, managers, current_archive>>

ImportArchive ==
    \E archive_path \in ImportInputs, password \in {None, "pw1", "bad"} :
        \E R \in {import_archive(Call(Session), archive_path, password)} :
            Becomes(R, "import_archive", Args(archive_path, password, <<>>)) /\ Frame

Decrypt ==
    \E password \in {"", "pw1", "bad"} :
        \E R \in {decrypt(Call(Session), password)} :
            Becomes(R, "decrypt", Args(<<>>, password, <<>>)) /\ Frame

Encrypt ==
    \E password \in {"", "pw1"} :
        \E R \in {encrypt(Call(Session), password)} :
            Becomes(R, "encrypt", Args(<<>>, password, <<>>)) /\ Frame

AddNotes ==
    \E dest \in {<<>>, <<"a", "/">>} :
        \E R \in {add(Call(Session), <<"src", "notes.txt">>, dest)} :
            Becomes(R, "add", Args(<<"src", "notes.txt">>, None, dest)) /\ Frame

RemoveEntry ==
    \E path \in {<<"notes.txt">>, <<"a">>, <<".">>} :
        \E R \in {remove(Call(Session), path)} :
            Becomes(R, "remove", Args(path, None, <<>>)) /\ Frame

Next == ImportArchive \/ Decrypt \/ Encrypt \/ AddNotes \/ RemoveEntry

Init ==
    /\ PYZIPPER_AVAILABLE = FALSE
    /\ py7zr \in BOOLEAN
    /\ rarfile \in BOOLEAN
    /\ InitSession

Spec == Init /\ [][Next]_vars

\* the entries of the Staging Area
Staging == Below(fs, temp_dir)

\* the step is a call of decrypt with a password
DecryptStep == last'.op = "decrypt" /\ Truthy(last'.args.password)
Retryable == _is_encrypted_import /\ _imported_archive_path # NoPath

\* C1: decrypt(password) with a non-empty password passes its guard only when
\* the known-encrypted flag is set and a source archive path is recorded; in
\* every other state it raises the InvalidState RuntimeError and the file
\* system, the flag, the recorded path and the export password stay as they were.
C1_DecryptOnlyAfterFailedImport ==
    [][DecryptStep =>
          IF Retryable
          THEN last'.exc # InvalidState
          ELSE /\ last'.exc = InvalidState
               /\ UNCHANGED <<fs, archives, _is_encrypted_import,
                              _imported_archive_path, _password_for_export>>]_vars

\* C1's case: a rejected decrypt in a session that has entries, an export
\* password and a recorded source path, but no failed encrypted import
C1_Witness ==
    /\ last.op = "decrypt"
    /\ last.exc = InvalidState
    /\ Truthy(last.args.password)
    /\ Staging # {}
    /\ _password_for_export # None
    /\ _imported_archive_path # NoPath
    /\ ~_is_encrypted_import

\* the paths an extraction of `archive` can leave under the staging root
Extractable(archive) ==
    UNION {{temp_dir \o SubSeq(archive.members[i].name, 1, n) :
               n \in 1..Len(archive.members[i].name)} :
           i \in 1..Len(archive.members)}

\* C2: an accepted decrypt(password) empties the Staging Area, re-runs the
\* import of the recorded archive with the password, and returns with the flag
\* false exactly when that import succeeded; when it raises the flag is true.
C2_AcceptedDecryptReimports ==
    [][(DecryptStep /\ Retryable) =>
          /\ \E i \in 1..Len(last'.log) : last'.log[i] = <<"INFO", "importing">>
          /\ Below(fs', temp_dir) \subseteq Extractable(archives[_imported_archive_path])
          /\ _is_encrypted_import' = (last'.exc # NoExc)]_vars

\* an import that failed for a missing or a wrong password
PasswordFailure(e) ==
    e.cls \in {"RuntimeError", "PasswordRequired", "LZMAError"}

\* C3: the known-encrypted flag tells that the most recent import attempt
\* failed for its password: an import_archive call that succeeds right after
\* one that failed for a missing or wrong password leaves the flag false.
C3_FlagFollowsLastImport ==
    [][(/\ last.op = "import_archive" /\ PasswordFailure(last.exc)
        /\ last'.op = "import_archive" /\ last'.exc = NoExc) =>
          ~_is_encrypted_import']_vars

\* C4: an import_archive call that fails for a reason other than the password
\* leaves the known-encrypted flag as it was.
C4_FlagOnlyOnPasswordFailure ==
    [][(last'.op = "import_archive" /\ last'.exc # NoExc
        /\ ~PasswordFailure(last'.exc)) =>
          _is_encrypted_import' = _is_encrypted_import]_vars

-----------------------------------------------------------------------------
(* SpecTree: add, remove and list_files on one session, for any path string *)

FileSources == {<<"src", "notes.txt">>}

AddDests ==
    {<<>>, <<"a", "/">>, <<"a", "/", "b">>, <<"..">>,
     <<"..", "/", "..", "/", "etc", "/", "passwd">>}

RemovePaths ==
    {<<"notes.txt">>, <<"a">>, <<"a", "/", "notes.txt">>, <<"d">>,
     <<>>, <<".">>, <<"/">>, <<"..", "/", "notes.txt">>,
     <<"a", "/", "..", "/", "..">>,
     <<"..", "/", "..", "/", "etc", "/", "passwd">>}

ListPaths ==
    {<<".">>, <<"a">>, <<"/", "a", "/">>, <<"..">>, <<"..", "/", "..", "/", "etc">>}

Add ==
    \E source_path \in FileSources, dest \in AddDests :
        \E R \in {add(Call(Session), source_path, dest)} :
            BecomesAfter(R, "add", Args(source_path, None, dest)) /\ Frame

AddTree ==
    \E source_path \in {<<"src", "d">>, <<"src", "missing">>} :
        \E R \in {add(Call(Session), source_path, <<>>)} :
            BecomesAfter(R, "add", Args(source_path, None, <<>>)) /\ Frame

Remove ==
    \E path \in RemovePaths :
        \E R \in {remove(Call(Session), path)} :
            BecomesAfter(R, "remove", Args(path, None, <<>>)) /\ Frame

ListFiles ==
    \E path \in ListPaths :
        \E R \in {list_files(Call(Session), path)} :
            BecomesAfter(R, "list_files", Args(path, None, <<>>)) /\ Frame

NextTree == Add \/ AddTree \/ Remove \/ ListFiles

InitTree ==
    /\ PYZIPPER_AVAILABLE = FALSE
    /\ py7zr = FALSE
    /\ rarfile = FALSE
    /\ InitSession

SpecTree == InitTree /\ [][NextTree]_vars

\* the host file system outside the Staging Area
Outside(f) == [q \in {q \in DOMAIN f : ~IsPrefix(temp_dir, q)} |-> f[q]]

\* C5: no add, remove or list_files call creates, changes, deletes or
\* enumerates anything outside the Staging Area root, whatever the path string.
C5_NothingOutsideTheRoot ==
    [][/\ Outside(fs') = Outside(fs)
       /\ last'.op = "list_files" =>
              \A i \in 1..Len(last'.ret) : Head(last'.ret[i]) # ".."]_vars

\* the last two calls were add of a single file, which created the file at
\* q, and remove of the path that names q
AddedThenRemoved(q) ==
    /\ last.op = "remove" /\ last.exc = NoExc
    /\ last.added.args.path \in FileSources
    /\ q \in last.added.created /\ Name(q) = Name(last.added.args.path)
    /\ q = Phys(fs, _resolve_path(Session, last.args.path))

\* C8 as claimed: after add(source, d) of a file and remove of the path where
\* the file was placed, list_files() returns what it returned before the add,
\* also when d names parent directories that did not exist.
C8_AddRemoveInverse ==
    last.op = "remove" =>
        \A q \in last.added.created :
            AddedThenRemoved(q) => list_files(Session, <<".">>).ret = last.added.before

\* C8 amended: after add(source, d) of a file that created nothing but the
\* file itself (the placed path did not exist and every directory above it
\* did), remove of the placed path makes list_files() return what it returned
\* before the add.
C8_AddRemoveInverseWhenParentsExist ==
    last.op = "remove" =>
        \A q \in last.added.created :
            (AddedThenRemoved(q) /\ last.added.created = {q}) =>
                list_files(Session, <<".">>).ret = last.added.before

C8_Witness ==
    /\ last.op = "remove"
    /\ \E q \in last.added.created :
           /\ AddedThenRemoved(q) /\ last.added.created = {q}
           /\ StrictlyBelow(temp_dir, Parent(q))
    /\ last.added.before # <<>>

-----------------------------------------------------------------------------
(* SpecShell: interactive_mode, one action per command of the loop.  Each  *)
(* manager of the run has the number of close() calls made on it and       *)
(* whether another method was called on it after one.                      *)

MaxCloses == 2

\* the Staging Area as a tree: the archive-relative paths, each with its
\* content or "dir"
Tree(f, root) == {<<relative_to(p, root), f[p]>> : p \in Below(f, root)}

\* what a successful save keeps for the open that follows it: the path written
\* and the tree it was written from
NoSave == [path |-> <<>>, tree |-> {}]

\* a command of the loop ends with the session R
Command(R, op, args, saved) ==
    /\ fs' = R.fs
    /\ archives' = R.archives
    /\ temp_dir' = R.temp_dir
    /\ _password_for_export' = R._password_for_export
    /\ _imported_archive_path' = R._imported_archive_path
    /\ _is_encrypted_import' = R._is_encrypted_import
    /\ last' = [op |-> op, args |-> args, exc |-> R.exc, ret |-> R.ret,
                log |-> R.log, bar |-> R.bar, saved |-> saved]
    /\ UNCHANGED <<PYZIPPER_AVAILABLE, py7zr, rarfile>>

\* the command called a method of the current manager, close() n times
Used == [managers EXCEPT ![mgr].late = @ \/ managers[mgr].closes > 0]
Closed(n) == [managers EXCEPT ![mgr].closes = @ + n]

\* __main__.py:147-148: an exception of the command is logged, the loop goes on
Reported(R) == IF R.exc = NoExc THEN R ELSE logger_log(R, "ERROR", "error")

\* a command that calls a method of the current manager and nothing else
Plain(R, op, args) ==
    /\ Command(Reported(R), op, args, NoSave)
    /\ managers' = Used
    /\ UNCHANGED <<pc, mgr, current_archive>>

OpenPaths ==
    {<<"data", "tar", "gz">>, <<"secret", "zip">>, <<"missing", "zip">>, <<"out", "tar">>}
OpenPasswords == {None}

\* cmd == "open" (__main__.py:58-72)
Open ==
    /\ pc = "prompt"
    /\ Cardinality(DOMAIN managers) < MaxManagers
    /\ managers[mgr].closes < MaxCloses
    /\ \E path \in OpenPaths, pwd \in OpenPasswords :
         \E C \in {close(Call(Session))} :
           IF C.exc # NoExc
           THEN /\ Command(Reported(C), "open", Args(path, pwd, <<>>), NoSave)
                /\ managers' = Closed(1)
                /\ UNCHANGED <<pc, mgr, current_archive>>
           ELSE LET k == Cardinality(DOMAIN managers) + 1
                IN  \E R \in {import_archive(ArchiveManager_init(C, k), path, pwd)} :
                      /\ Command(R, "open", Args(path, pwd, <<>>),
                                 IF last.op = "save" /\ last.saved.path = path
                                 THEN last.saved ELSE NoSave)
                      /\ managers' = Closed(1) @@ (k :> [closes |-> 0, late |-> FALSE])
                      /\ mgr' = k
                      /\ current_archive' =
                             IF R.exc = NoExc THEN path
                             ELSE path \o <<"(Load Failed)">>
                      /\ pc' = pc

\* the paths given to save: files of the working directory and a file in the
\* directory that info shows as the Temp Directory
SavePaths ==
    {<<"out", "tar">>, <<"out", "rar">>,
     <<"/">> \o join(temp_dir) \o <<"/", "out", "tar">>}

\* cmd == "save" with a path (__main__.py:74-90)
Save ==
    /\ pc = "prompt"
    /\ \E save_path \in SavePaths :
         \E R \in {export(Call(Session), save_path, None)} :
           /\ Command(Reported(R), "save", Args(save_path, None, <<>>),
                      IF R.exc = NoExc
                      THEN [path |-> save_path, tree |-> Tree(fs, temp_dir)]
                      ELSE NoSave)
           /\ managers' = Used
           /\ current_archive' = IF R.exc = NoExc THEN save_path ELSE current_archive
           /\ UNCHANGED <<pc, mgr>>

\* cmd in ["new", "close"] (__main__.py:92-96)
New ==
    /\ pc = "prompt"
    /\ Cardinality(DOMAIN managers) < MaxManagers
    /\ managers[mgr].closes < MaxCloses
    /\ \E C \in {close(Call(Session))} :
         IF C.exc # NoExc
         THEN /\ Command(Reported(C), "new", NoArgs, NoSave)
              /\ managers' = Closed(1)
              /\ UNCHANGED <<pc, mgr, current_archive>>
         ELSE LET k == Cardinality(DOMAIN managers) + 1
              IN  /\ Command(logger_log(ArchiveManager_init(C, k),
                                        "INFO", "workspace_cleared"),
                             "new", NoArgs, NoSave)
                  /\ managers' = Closed(1) @@ (k :> [closes |-> 0, late |-> FALSE])
                  /\ mgr' = k
                  /\ current_archive' = NoArchive
                  /\ pc' = pc

\* cmd == "info" (__main__.py:98-105)
Info ==
    /\ pc = "prompt"
    /\ \E R \in {list_files(logger_log(logger_log(logger_log(Call(Session),
                     "INFO", "current_archive"), "INFO", "temp_directory"),
                     "INFO", IF Truthy(_password_for_export)
                             THEN "encryption_enabled" ELSE "encryption_disabled"),
                     <<".">>)} :
         Plain(logger_log(R, "INFO", "total_files"),
               "info", NoArgs)

\* cmd == "ls" (__main__.py:107-112)
Ls ==
    /\ pc = "prompt"
    /\ \E R \in {list_files(Call(Session), <<".">>)} : Plain(R, "ls", NoArgs)

\* cmd == "add" (__main__.py:114-120)
ShellAdd ==
    /\ pc = "prompt"
    /\ \E src \in FileSources, dst \in {<<"a", "/">>} :
         \E R \in {add(Call(Session), src, dst)} : Plain(R, "add", Args(src, None, dst))

\* cmd == "rm" (__main__.py:122-126)
Rm ==
    /\ pc = "prompt"
    /\ \E path \in {<<"a", "/", "notes.txt">>, <<".">>} :
         \E R \in {remove(Call(Session), path)} : Plain(R, "rm", Args(path, None, <<>>))

\* cmd == "enc" (__main__.py:128-134)
Enc ==
    /\ pc = "prompt"
    /\ \E pwd \in {"pw1"} :
         \E R \in {encrypt(Call(Session), pwd)} : Plain(R, "enc", Args(<<>>, pwd, <<>>))

\* cmd == "dec" (__main__.py:136-142)
Dec ==
    /\ pc = "prompt"
    /\ \E pwd \in {"pw1"} :
         \E R \in {decrypt(Call(Session), pwd)} : Plain(R, "dec", Args(<<>>, pwd, <<>>))

\* the loop ends and the finally clause closes the manager (__main__.py:153-154)
Finally(S, op, n) ==
    /\ Command(close(S), op, NoArgs, NoSave)
    /\ managers' = Closed(n)
    /\ pc' = "returned"
    /\ UNCHANGED <<mgr, current_archive>>

\* cmd in ["exit", "quit", "q"] (__main__.py:34-35)
Exit ==
    /\ pc = "prompt"
    /\ managers[mgr].closes < MaxCloses
    /\ Finally(Call(Session), "exit", 1)

\* KeyboardInterrupt while the loop waits for a command (__main__.py:150-152)
Interrupt ==
    /\ pc = "prompt"
    /\ managers[mgr].closes < MaxCloses
    /\ Finally(logger_log(Call(Session), "WARN", "interrupted"), "interrupt", 1)

\* KeyboardInterrupt in open or new, after mgr.close() has returned and before
\* mgr is assigned the new manager (__main__.py:65-66, 93-94)
InterruptInReplace ==
    /\ pc = "prompt"
    /\ managers[mgr].closes + 2 <= MaxCloses
    /\ \E C \in {close(Call(Session))} :
         /\ C.exc = NoExc
         /\ Finally(logger_log(C, "WARN", "interrupted"), "interrupt", 2)

NextShell ==
    \/ Open \/ Save \/ New \/ Info \/ Ls \/ ShellAdd \/ Rm \/ Enc \/ Dec
    \/ Exit \/ Interrupt \/ InterruptInReplace

InitShell ==
    /\ PYZIPPER_AVAILABLE = FALSE
    /\ py7zr = FALSE
    /\ rarfile = FALSE
    /\ InitManager
    /\ pc = "prompt"

SpecShell == InitShell /\ [][NextShell]_vars

\* C6: every manager constructed has close() called on it exactly once by the
\* time the program returns, and no other method is called on a manager after
\* a close() of it.
C6_ClosedExactlyOnce ==
    \A k \in DOMAIN managers :
        /\ ~managers[k].late
        /\ managers[k].closes <= 1
        /\ pc = "returned" => managers[k].closes = 1

\* the step is a command of the loop that failed
FailedCommand == last'.exc # NoExc /\ last'.op \notin {"exit", "interrupt"}

\* C7: when a command of the interactive loop fails, the loop goes on with
\* the session state from before the command: the Staging Area contents, the
\* export password and the known-encrypted flag are unchanged.
C7_FailedCommandKeepsSession ==
    [][FailedCommand =>
          /\ pc' = "prompt"
          /\ Tree(fs', temp_dir') = Tree(fs, temp_dir)
          /\ _password_for_export' = _password_for_export
          /\ _is_encrypted_import' = _is_encrypted_import]_vars

\* C9: exporting a session whose Staging Area holds the tree T and importing
\* the archive into a fresh session gives a Staging Area that holds T,
\* directories that contain no file included.
C9_RoundTrip ==
    (last.op = "open" /\ last.exc = NoExc /\ last.saved.path # <<>>) =>
        Tree(fs, temp_dir) = last.saved.tree

\* the step is an export by the save command
SaveStep == last'.op = "save"
SessionUnchanged ==
    /\ Tree(fs', temp_dir') = Tree(fs, temp_dir)
    /\ UNCHANGED <<temp_dir, _password_for_export, _imported_archive_path,
                   _is_encrypted_import>>

\* C10 as claimed: export, whether it succeeds or fails, leaves the Staging
\* Area contents, the export password, the recorded source archive path and
\* the known-encrypted flag as they were.
C10_ExportLeavesSession == [][SaveStep => SessionUnchanged]_vars

\* C10 amended: export to an output path that is not inside the Staging Area,
\* whether it succeeds or fails, leaves the whole file system, the export
\* password, the recorded source archive path and the known-encrypted flag as
\* they were, and two consecutive successful exports write the same members.
C10_ExportOutsideLeavesSession ==
    [][(SaveStep /\ InCwd(last'.args.path)) =>
          /\ SessionUnchanged
          /\ fs' = fs
          /\ (/\ last.op = "save" /\ last.exc = NoExc /\ InCwd(last.args.path)
              /\ last'.exc = NoExc) =>
                 archives'[last'.args.path].members = archives[last.args.path].members]_vars

C10_Witness ==
    /\ last.op = "save" /\ last.exc = NoExc /\ InCwd(last.args.path)
    /\ Staging # {}
    /\ Truthy(_password_for_export)
    /\ _is_encrypted_import
    /\ archives[last.args.path].members # <<>>

-----------------------------------------------------------------------------
(* SpecExport: the export password, import and export on one session.  The  *)
(* archive files a run writes are bounded by MaxExports names.             *)

MaxExports == 1

ExportPaths ==
    {<<"out", "zip">>, <<"out", "tar", "gz">>, <<"out", "7z">>, <<"out", "rar">>}

\* the archive files written by the run
Exported == DOMAIN archives \ DOMAIN InitArchives

\* encrypt(password); None stands for an argument that is not a string
SetPassword ==
    \E password \in {None, "", "pw1", "pw2"} :
        \E R \in {encrypt(Call(Session), password)} :
            Becomes(R, "encrypt", Args(<<>>, password, <<>>)) /\ Frame

\* decrypt() and decrypt('')
ClearPassword ==
    \E password \in {None, ""} :
        \E R \in {decrypt(Call(Session), password)} :
            Becomes(R, "decrypt", Args(<<>>, password, <<>>)) /\ Frame

\* decrypt(password)
Retry ==
    \E R \in {decrypt(Call(Session), "pw1")} :
        Becomes(R, "decrypt", Args(<<>>, "pw1", <<>>)) /\ Frame

Stage ==
    \E source_path \in {<<"src", "notes.txt">>, <<"src", "d">>} :
        \E R \in {add(Call(Session), source_path, <<>>)} :
            Becomes(R, "add", Args(source_path, None, <<>>)) /\ Frame

Import ==
    \E archive_path \in {<<"part", "zip">>}, password \in {None, "pw1"} :
        \E R \in {import_archive(Call(Session), archive_path, password)} :
            Becomes(R, "import_archive", Args(archive_path, password, <<>>)) /\ Frame

Export ==
    \E output_path \in ExportPaths :
        /\ Cardinality(Exported \cup {output_path}) <= MaxExports
        /\ \E R \in {export(Call(Session), output_path, None)} :
               Becomes(R, "export", Args(output_path, None, <<>>)) /\ Frame

\* the formats given as compression_format
ExportFormats == {"rar", "gz", "xz", "bogus", "tar.xz", "7z"}

\* export(output_path, compression_format=fmt); the record of the call
\* keeps fmt as the one element of args.dest
ExportAs ==
    \E fmt \in ExportFormats :
        /\ Cardinality(Exported \cup {<<"out", "bin">>}) <= MaxExports
        /\ \E R \in {export(Call(Session), <<"out", "bin">>, fmt)} :
               Becomes(R, "export", Args(<<"out", "bin">>, None, <<fmt>>)) /\ Frame

NextExport ==
    SetPassword \/ ClearPassword \/ Retry \/ Stage \/ Import \/ Export \/ ExportAs

InitExport ==
    /\ PYZIPPER_AVAILABLE \in BOOLEAN
    /\ py7zr \in BOOLEAN
    /\ rarfile = FALSE
    /\ InitSession

SpecExport == InitExport /\ [][NextExport]_vars

\* the files of the Staging Area
StagedFiles == {q \in Staging : fs[q] # "dir"}

\* the entries of the archive file the last call names
Entries(path) ==
    {<<archives[path].members[i].name, archives[path].members[i].data,
       archives[path].members[i].pwd>> : i \in 1..Len(archives[path].members)}

\* the last call was an export to ZIP with no AES writer in use
PlainZipExport ==
    /\ last.op = "export"
    /\ _get_format(last.args.path) = "zip"
    /\ ~(Truthy(_password_for_export) /\ PYZIPPER_AVAILABLE)

\* C11: an export to ZIP without an AES-capable writer in use (a password
\* set and pyzipper missing, or no password) does not fail; with a password
\* set it logs the degraded-capability warning; the archive written holds
\* every file of the Staging Area, unencrypted
C11_ZipExportDegrades ==
    PlainZipExport =>
        /\ last.exc = NoExc
        /\ Truthy(_password_for_export) =>
               \E i \in 1..Len(last.log) :
                   last.log[i] = <<"WARN", "pyzipper_not_installed">>
        /\ Entries(last.args.path) =
               {<<relative_to(q, temp_dir), fs[q], None>> : q \in StagedFiles}

\* C12: encrypt(password) with an empty or non-string password raises
\* ValueError and leaves the stored export password as it was; with a
\* non-empty string it stores exactly that password; and an export that
\* writes a format with passwords (zip, 7z) writes every entry under the
\* stored password
C12_EncryptStoresPassword ==
    [][/\ last'.op = "encrypt" =>
              IF Truthy(last'.args.password)
              THEN /\ last'.exc = NoExc
                   /\ _password_for_export' = last'.args.password
              ELSE /\ last'.exc.cls = "ValueError"
                   /\ _password_for_export' = _password_for_export
       /\ (/\ last'.op = "export" /\ last'.exc = NoExc
           /\ _get_format(last'.args.path) \in {"zip", "7z"}) =>
              \A i \in 1..Len(archives'[last'.args.path].members) :
                  archives'[last'.args.path].members[i].pwd = _password_for_export
      ]_vars

\* a refused encrypt() in a session whose stored password is "pw2"
C12_Witness ==
    /\ last.op = "encrypt"
    /\ last.exc.cls = "ValueError"
    /\ _password_for_export = "pw2"

-----------------------------------------------------------------------------
(* Clearing the export password, on Spec *)

\* the step is a call of decrypt without a password
ClearStep == last'.op = "decrypt" /\ ~Truthy(last'.args.password)

\* C13: decrypt() without a password never fails and leaves the export
\* password unset, so a second call changes nothing; no call of it changes
\* the file system, the staging directory, the recorded source path or the
\* known-encrypted flag
C13_ClearIsIdempotent ==
    [][ClearStep =>
          /\ last'.exc = NoExc
          /\ _password_for_export' = None
          /\ fs' = fs
          /\ archives' = archives
          /\ UNCHANGED <<temp_dir, _imported_archive_path, _is_encrypted_import>>
      ]_vars

\* a second clearing call (nothing was set) in a session with a failed
\* encrypted import and a Staging Area that is not empty
C13_Witness ==
    /\ last.op = "decrypt"
    /\ ~Truthy(last.args.password)
    /\ last.log = <<<<"INFO", "encryption_was_not_enabled">>>>
    /\ _is_encrypted_import
    /\ _imported_archive_path # NoPath
    /\ Staging # {}

-----------------------------------------------------------------------------
(* SpecFormat: _get_format applied to file names of up to MaxLen           *)
(* dot-separated components, in the working directory or under a directory *)

MaxLen == 3

FormatComponents ==
    {"", "out", "txt", "zip", "tar", "gz", "xz", "tgz", "7z", "rar",
     "ZIP", "TAR", "GZ", "TGZ"}

FormatNames ==
    UNION {[1..n -> FormatComponents] : n \in 1..MaxLen}

FormatDirs == {<<>>, <<"tmp", "/">>, <<"src", "/", "d", "/">>}

\* a caller holds a manager and the path it is about to ask the format of
FormatCall(path) ==
    [op |-> "call", args |-> Args(path, None, <<>>), exc |-> NoExc,
     ret |-> NoRet, log |-> <<>>, bar |-> <<>>]

GetFormat ==
    /\ last.op = "call"
    /\ last' = [last EXCEPT !.op = "_get_format",
                            !.ret = <<_get_format(last.args.path)>>]
    /\ UNCHANGED <<fs, archives, temp_dir, _password_for_export,
                   _imported_archive_path, _is_encrypted_import,
                   PYZIPPER_AVAILABLE, py7zr, rarfile>>
    /\ Frame

NextFormat == GetFormat

InitFormat ==
    /\ PYZIPPER_AVAILABLE = FALSE
    /\ py7zr = FALSE
    /\ rarfile = FALSE
    /\ fs = ArchiveManager_init(World, 1).fs
    /\ archives = InitArchives
    /\ temp_dir = mkdtemp(1)
    /\ _password_for_export = None
    /\ _imported_archive_path = NoPath
    /\ _is_encrypted_import = FALSE
    /\ \E dir \in FormatDirs, name \in FormatNames : last = FormatCall(dir \o name)
    /\ mgr = 1
    /\ managers = (1 :> [closes |-> 0, late |-> FALSE])
    /\ current_archive = NoArchive
    /\ pc = "session"

SpecFormat == InitFormat /\ [][NextFormat]_vars

\* the Format Tags of the specification
FormatTags == {"zip", "tar", "tar.gz", "tar.xz", "7z", "rar", "gz", "xz", "unknown"}

\* the reference rule on the components of a file name
ReferenceFormat(name) ==
    IF EndsWith2(name, "tar", "gz") \/ EndsWith1(name, "tgz") THEN "tar.gz"
    ELSE IF EndsWith2(name, "tar", "xz") THEN "tar.xz"
    ELSE IF /\ Len(name) >= 2
            /\ Lower(name[Len(name)]) \in {"zip", "tar", "7z", "rar", "gz", "xz"}
    THEN Lower(name[Len(name)])
    ELSE "unknown"

\* C14: _get_format gives, for every path, the reference rule applied to
\* the file name: tar.gz for .tar.gz and .tgz, tar.xz for .tar.xz, the tag
\* of the last extension otherwise, `unknown` when no rule matches; the
\* result is always one of the Format Tags
C14_FormatResolver ==
    last.op = "_get_format" =>
        /\ last.ret = <<ReferenceFormat(basename(last.args.path))>>
        /\ last.ret[1] \in FormatTags

-----------------------------------------------------------------------------
(* The Staging Area root under add, remove and list_files, on SpecTree *)

\* C15: after every add, remove and list_files call the staging directory
\* still exists, so close() succeeds; and a remove deletes nothing but
\* entries strictly below it
C15_RootSurvives ==
    [][/\ is_dir(fs', temp_dir')
       /\ close(Session)'.exc = NoExc
       /\ last'.op = "remove" =>
              \A q \in (DOMAIN fs) \ (DOMAIN fs') : StrictlyBelow(temp_dir, q)
      ]_vars

\* the step is a successful add of a single file
FileAddStep ==
    /\ last'.op = "add"
    /\ last'.args.path \in FileSources
    /\ last'.exc = NoExc

\* after the step, p is a file with the content of the source
PlacedAt(p) == is_file(fs', p) /\ fs'[Phys(fs', p)] = fs[last'.args.path]

\* where the claim puts the file, dest_path being the resolved destination
PlacedByRule(dest_path) ==
    IF is_dir(fs, dest_path) \/ endswith_slash(last'.args.dest)
    THEN PlacedAt(Append(dest_path, Name(last'.args.path)))
    ELSE PlacedAt(dest_path)

\* C16: a successful add of a single file puts it, when the resolved
\* destination is an existing directory or dest ends with "/", inside that
\* directory under the source's base name, and otherwise at the resolved
\* destination path itself
C16_FilePlacedAtDestination ==
    [][FileAddStep => PlacedByRule(_resolve_path(Session, last'.args.dest))]_vars

\* the path an add writes, dest_path being the resolved destination: the
\* source's base name in the destination directory
AddTarget(dest_path) ==
    IF is_dir(fs, last'.args.path) \/ is_dir(fs, dest_path)
       \/ endswith_slash(last'.args.dest)
    THEN Append(dest_path, Name(last'.args.path))
    ELSE Append(Parent(dest_path), Name(last'.args.path))

\* the step refuses to write over target when it exists
NoReplace(target) ==
    exists(fs, target) => (last'.exc # NoExc /\ fs' = fs)

\* C17: an add whose source does not exist fails with FileNotFoundError and
\* an add whose target already exists fails; both leave the file system
\* as it was
C17_AddNeverReplaces ==
    [][last'.op = "add" =>
          IF ~exists(fs, last'.args.path)
          THEN last'.exc.cls = "FileNotFoundError" /\ fs' = fs
          ELSE NoReplace(AddTarget(_resolve_path(Session, last'.args.dest)))
      ]_vars

\* the list returned by the step is the descendants of target_path: as many
\* paths as there are descendants, each naming a descendant when joined to
\* the staging directory, no descendant twice, in increasing order
ListedRight(target_path) ==
    IF ~exists(fs, target_path) THEN last'.ret = <<>>
    ELSE /\ Len(last'.ret) = Cardinality(Below(fs, Phys(fs, target_path)))
         /\ \A i \in 1..Len(last'.ret) :
                Phys(fs, temp_dir \o last'.ret[i]) \in Below(fs, Phys(fs, target_path))
         /\ \A i, j \in 1..Len(last'.ret) :
                i < j => /\ PathLess(last'.ret[i], last'.ret[j])
                         /\ Phys(fs, temp_dir \o last'.ret[i])
                                # Phys(fs, temp_dir \o last'.ret[j])

\* C18: list_files never raises and never changes the file system; for a
\* path that does not exist it returns the empty list, and for one that
\* exists every descendant exactly once, as a path relative to the staging
\* directory, in sorted order
C18_ListFilesLists ==
    [][last'.op = "list_files" =>
          /\ last'.exc = NoExc
          /\ fs' = fs
          /\ ListedRight(_resolve_path(Session, last'.args.path))
      ]_vars

\* a listing of the whole Staging Area with files and directories at two
\* depths
C18_Witness ==
    /\ last.op = "list_files"
    /\ last.args.path = <<".">>
    /\ Len(last.ret) >= 4
    /\ \E i \in 1..Len(last.ret) : Len(last.ret[i]) >= 2
    /\ \E q \in Staging : fs[q] = "dir"

\* the events of a kind among those a progress bar received
Events(bar, kind) == {i \in 1..Len(bar) : bar[i][1] = kind}

\* C19: the progress events of a call that reports progress begin with the
\* total, given once; the updates never exceed the total and number exactly
\* the total when the call succeeds; and the events end with the one
\* finished event, whether the call succeeded or failed
C19_ProgressProtocol ==
    last.bar # <<>> =>
        /\ Events(last.bar, "total") = {1}
        /\ Cardinality(Events(last.bar, "update")) <= last.bar[1][2]
        /\ last.exc = NoExc =>
               Cardinality(Events(last.bar, "update")) = last.bar[1][2]
        /\ Events(last.bar, "finish") = {Len(last.bar)}

-----------------------------------------------------------------------------
(* A ZIP import that fails partway, on SpecExport *)

\* the step is an import of a zip that failed in the loop over its members
ZipFailStep ==
    /\ last'.op = "import_archive"
    /\ _get_format(last'.args.path) = "zip"
    /\ last'.exc # NoExc
    /\ last'.bar # <<>>

\* the step extracted the first n of members and nothing else: they are in
\* the Staging Area with their content, nothing was removed, and whatever
\* else is new is a directory above one of the first n + 1
ExtractedFirst(members, n) ==
    /\ n < Len(members)
    /\ \A i \in 1..n :
           /\ is_file(fs', temp_dir \o members[i].name)
           /\ fs'[temp_dir \o members[i].name] = members[i].data
    /\ DOMAIN fs \subseteq DOMAIN fs'
    /\ \A q \in DOMAIN fs' :
           (q \notin DOMAIN fs \/ fs'[q] # fs[q]) =>
               \/ \E i \in 1..n : q = temp_dir \o members[i].name
               \/ /\ fs'[q] = "dir"
                  /\ \E i \in 1..(n + 1) :
                         StrictlyBelow(q, temp_dir \o members[i].name)

\* after the step the first n of members are listed by list_files() and
\* are among the files an export walks
StillVisible(members, n, listed, walked) ==
    \A i \in 1..n :
        /\ \E j \in 1..Len(listed) : listed[j] = members[i].name
        /\ \E j \in 1..Len(walked) : walked[j] = temp_dir \o members[i].name

\* the last call was an import of a zip that failed in the loop over its
\* members
ZipFailed ==
    /\ last.op = "import_archive"
    /\ _get_format(last.args.path) = "zip"
    /\ last.exc # NoExc
    /\ last.bar # <<>>

\* C20: a zip import that fails at a member leaves the members before it
\* extracted and extracts none after it (the updates of the bar count the
\* members extracted); the error is raised to the caller after one attempt;
\* and the extracted members are listed by list_files and walked by export
C20_ZipFailureKeepsPartial ==
    /\ [][ZipFailStep =>
             /\ ExtractedFirst(archives[last'.args.path].members,
                               Cardinality(Events(last'.bar, "update")))
             /\ Events(last'.bar, "total") = {1}
             /\ Cardinality({i \in 1..Len(last'.log) :
                                last'.log[i] = <<"INFO", "importing">>}) = 1
         ]_vars
    /\ [](ZipFailed =>
             StillVisible(archives[last.args.path].members,
                          Cardinality(Events(last.bar, "update")),
                          list_files(Session, <<".">>).ret,
                          os_walk(fs, temp_dir)))

\* part.zip failed at its second member: the first is in the Staging Area,
\* the third is not
C20_Witness ==
    /\ last.op = "import_archive"
    /\ last.args.path = <<"part", "zip">>
    /\ last.exc # NoExc
    /\ Cardinality(Events(last.bar, "update")) = 1
    /\ is_file(fs, temp_dir \o <<"b">>)
    /\ ~exists(fs, temp_dir \o <<"d">>)

-----------------------------------------------------------------------------
(* The formats of export, on SpecExport *)

\* the format an export call works with: compression_format when given,
\* else the one of the output name
FormatOf(args) ==
    IF args.dest # <<>> THEN args.dest[1] ELSE _get_format(args.path)

\* the step fails with an exception of class cls and writes nothing
FailsBeforeWriting(cls) ==
    /\ last'.exc.cls = cls
    /\ archives' = archives
    /\ fs' = fs

\* the step wrote a tar of every file of the Staging Area, no entry under
\* a password
WroteTar(path) ==
    /\ last'.exc = NoExc
    /\ path \in DOMAIN archives'
    /\ archives'[path].kind = "tar"
    /\ {<<archives'[path].members[i].name, archives'[path].members[i].data,
          archives'[path].members[i].pwd>> :
            i \in 1..Len(archives'[path].members)}
       = {<<relative_to(q, temp_dir), fs[q], None>> : q \in StagedFiles}

\* what the step of an export to the format fmt does
ExportsAs(fmt) ==
    /\ fmt \notin {"zip", "tar", "tar.gz", "tar.xz", "7z"} =>
           FailsBeforeWriting("ValueError")
    /\ (fmt = "7z" /\ ~py7zr) => FailsBeforeWriting("ImportError")
    /\ fmt \in {"tar", "tar.gz", "tar.xz"} => WroteTar(last'.args.path)

\* C21: an export to a format without a writer (rar, gz, xz or any other
\* tag, from the output name or given as compression_format) raises
\* ValueError and writes nothing; an export to 7z without py7zr raises
\* ImportError and writes nothing; an export to tar, tar.gz or tar.xz
\* succeeds, with or without an export password, and no entry of the
\* archive is under a password
C21_ExportFormats ==
    [][last'.op = "export" => ExportsAs(FormatOf(last'.args))]_vars

\* a tar.xz given as compression_format was written with the export
\* password set, from a Staging Area that is not empty
C21_Witness ==
    /\ last.op = "export"
    /\ last.args.dest = <<"tar.xz">>
    /\ last.exc = NoExc
    /\ Truthy(_password_for_export)
    /\ archives[last.args.path].members # <<>>

-----------------------------------------------------------------------------
(* The recorded source path under import_archive, on Spec *)

\* C22: an import of a path that does not exist raises FileNotFoundError
\* and changes nothing (file system, archives, staging directory, recorded
\* source path, known-encrypted flag, export password); an import of a path
\* that exists records that path, whether it then succeeds or fails; and a
\* decrypt with a password leaves the recorded path as it was, so it
\* re-imports the archive recorded by the last import of an existing path
C22_MissingArchiveChangesNothing ==
    [][/\ last'.op = "import_archive" =>
              IF ~Path_exists(Session, last'.args.path)
              THEN /\ last'.exc.cls = "FileNotFoundError"
                   /\ fs' = fs
                   /\ archives' = archives
                   /\ UNCHANGED <<temp_dir, _imported_archive_path,
                                  _is_encrypted_import, _password_for_export>>
              ELSE _imported_archive_path' = last'.args.path
       /\ DecryptStep => _imported_archive_path' = _imported_archive_path
      ]_vars

\* an import of a missing path in a session that holds a failed encrypted
\* import of secret.zip and its leftovers
C22_Witness ==
    /\ last.op = "import_archive"
    /\ last.args.path = <<"missing", "zip">>
    /\ last.exc.cls = "FileNotFoundError"
    /\ _imported_archive_path = <<"secret", "zip">>
    /\ _is_encrypted_import
    /\ Staging # {}

====
